---------------------------- MODULE Spec2Model ----------------------------
(***************************************************************************)
(* Flask_servers: three small programs that share one Redis database       *)
(* (localhost:6379, db 0):                                                 *)
(*   lab7_exercise.py  a transaction ledger (earn / spend / history /      *)
(*                     get_balance) kept in one Redis list per player;     *)
(*   redis_server.py   snapshot writes (POST /) appended to one Redis list *)
(*                     per player and a best-score report (GET /);         *)
(*   app.py            a generic key/value passthrough (SET / GET / DEL).  *)
(*                                                                         *)
(* Text is modelled as a sequence of symbols: "PlayerData:1:2" is          *)
(* <<"PlayerData", ":", "1", ":", "2">>, so that formatting a key,         *)
(* matching a prefix and splitting on ':' are computed, not assumed.       *)
(***************************************************************************)
EXTENDS Integers, Sequences, FiniteSets, Bags, TLC

VARIABLES
    store,   \* the Redis database: key -> [type, items, val]
    r,       \* redis_server.py's module-level handle: "client" or "None"
    resp,    \* what the last completed operation returned
    calls,   \* history variable: the completed ledger writes, in call order
    posted,  \* history variable: the body, as sent, of each snapshot write answered 200
    procs,   \* the concurrent writers: how far each is, and what it is about to push
    players, \* cassandra_server.py's table 'players': id -> row
    scan,    \* a report in progress: the keys still to read and the scores so far
    reported, \* history variable: the scores of the last report answered 200
    lastSet  \* history variable: key -> the value, as sent, of the last POST or PUT
             \* the key/value service accepted for it and that was not removed since

vars == <<store, r, resp, calls, posted, procs, players, scan, reported, lastSet>>

(***************************************************************************)
(* Bounds of the model.                                                    *)
(***************************************************************************)
MaxLedgerWrites == 3
MaxSnapshots == 2
NumWriters == 2

(***************************************************************************)
(* Inputs.                                                                 *)
(***************************************************************************)
\* datetime.now() is the wall clock: an input of every write
Clock == {"t1"}
LedgerPlayers == {<<"1001">>, <<"1002">>}
Amounts == {50, 100, 200}

(***************************************************************************)
(* Generic helpers.                                                        *)
(***************************************************************************)
RECURSIVE SumSeq(_)
SumSeq(s) == IF s = <<>> THEN 0 ELSE Head(s) + SumSeq(Tail(s))

RECURSIVE SeqToBag(_)
SeqToBag(s) == IF s = <<>> THEN EmptyBag ELSE SetToBag({Head(s)}) (+) SeqToBag(Tail(s))

Reverse(s) == [i \in 1..Len(s) |-> s[Len(s) + 1 - i]]

StartsWith(s, p) == Len(s) >= Len(p) /\ SubSeq(s, 1, Len(p)) = p

(***************************************************************************)
(* JSON values and the json codec.  A value is a uniform record: t its     *)
(* JSON type, n its number (or 0), s its text (or <<>>).  A Python dict is *)
(* a function from member names to values.                                 *)
(***************************************************************************)
JInt(n) == [t |-> "int", n |-> n, s |-> <<>>]
JStr(s) == [t |-> "str", n |-> 0, s |-> s]
JBool(b) == [t |-> "bool", n |-> IF b THEN 1 ELSE 0, s |-> <<>>]
JNull == [t |-> "null", n |-> 0, s |-> <<>>]

EmptyDict == [k \in {} |-> JNull]
\* d[name] = v  (a Python dict assignment: adds or replaces the member)
DictSet(d, name, v) == [k \in DOMAIN d \cup {name} |-> IF k = name THEN v ELSE d[k]]
\* d.get(name): the member, or None
DictGet(d, name) == IF name \in DOMAIN d THEN d[name] ELSE JNull

\* json.dumps(d): the text of a JSON object
json_dumps(d) == [kind |-> "json", obj |-> d]
\* a list entry that is no JSON text
Garbage == [kind |-> "raw", obj |-> EmptyDict]
\* json.loads(text): the object, or JSONDecodeError
json_loads(text) ==
    IF text.kind = "json" THEN [ok |-> TRUE, obj |-> text.obj]
    ELSE [ok |-> FALSE, obj |-> EmptyDict]

(***************************************************************************)
(* The Redis commands the programs use.  Each is atomic in the server.     *)
(***************************************************************************)
ListVal(items) == [type |-> "list", items |-> items, val |-> <<>>]
StringVal(v) == [type |-> "string", items |-> <<>>, val |-> v]

Exists(s, key) == key \in DOMAIN s
TypeOf(s, key) == IF Exists(s, key) THEN s[key].type ELSE "none"
\* a list command on a key that holds a string answers WRONGTYPE
WrongType(s, key) == TypeOf(s, key) = "string"
Items(s, key) == IF TypeOf(s, key) = "list" THEN s[key].items ELSE <<>>
Put(s, key, v) == [k \in DOMAIN s \cup {key} |-> IF k = key THEN v ELSE s[k]]

\* a faulty variant: the new entry replaces the list (a SET where a push is meant)
RPush_overwrites(s, key, v) == Put(s, key, ListVal(<<v>>))
\* a faulty variant: a push done as read, extend, write back by a caller that read
\* before another caller wrote, which leaves the list with the new entry alone
LPush_lostUpdate(s, key, v) == Put(s, key, ListVal(<<v>>))
\* a faulty variant: the command is acknowledged and nothing is stored
RPush_notStored(s, key, v) == s
\* a faulty variant: the ledger's push puts the entry at the tail
LPush_atTail(s, key, v) == Put(s, key, ListVal(Append(Items(s, key), v)))
\* LPUSH key v: v becomes the head of the list
LPush(s, key, v) == Put(s, key, ListVal(<<v>> \o Items(s, key)))
\* RPUSH key v: v becomes the tail of the list
RPush(s, key, v) == Put(s, key, ListVal(Append(Items(s, key), v)))
\* LRANGE key start stop: both ends inclusive, negative indexes count from the tail
LRange(s, key, start, stop) ==
    LET l == Items(s, key)
        n == Len(l)
        a0 == IF start < 0 THEN n + start ELSE start
        b0 == IF stop < 0 THEN n + stop ELSE stop
        a == IF a0 < 0 THEN 0 ELSE a0
        b == IF b0 >= n THEN n - 1 ELSE b0
    IN  IF a > b THEN <<>> ELSE SubSeq(l, a + 1, b + 1)
\* FLUSHALL
FlushAll == [k \in {} |-> ListVal(<<>>)]

\* no report is in progress
NoScan == [pc |-> "idle", todo |-> <<>>, found |-> FALSE, best |-> <<>>, atStart |-> <<>>]
\* the key/value service has accepted no value yet
NothingWritten == [k \in {} |-> 0]
\* no report has been answered yet
NoScores == [id \in {} |-> 0]
\* the table 'players' with no row
NoPlayers == [id \in {} |-> <<>>]

(***************************************************************************)
(* The callers that write at the same time, each in its own request or     *)
(* script run.                                                             *)
(***************************************************************************)
Writers == 1..NumWriters
Idle == [pc |-> "idle", op |-> "none", arg |-> 0, key |-> <<>>, entry |-> Garbage]
NoWriterStarted == [w \in Writers |-> Idle]

(***************************************************************************)
(* lab7_exercise.py: the ledger.                                           *)
(***************************************************************************)
\* strftime("%d/%m/%Y - %H:%M:%S") of the wall clock
strftime(t) == <<"dmy-hms", t>>

\* the key each function formats for itself
KeyOfEarn(p) == <<"player", ":">> \o p \o <<":", "transactions">>
KeyOfSpend(p) == <<"player", ":">> \o p \o <<":", "transactions">>
KeyOfHistory(p) == <<"player", ":">> \o p \o <<":", "transactions">>
\* the key the earlier version of the readers used
KeyOfBalance_oldName(p) == <<"player_transactions", ":">> \o p
KeyOfBalance(p) == <<"player", ":">> \o p \o <<":", "transactions">>

EarnString(t, amount) ==
    json_dumps(DictSet(DictSet(EmptyDict, "timestamp", JStr(strftime(t))),
                       "transaction_amount", JInt(amount)))
\* a faulty variant: the amount is not negated
SpendString_keepsSign(t, amount) ==
    json_dumps(DictSet(DictSet(EmptyDict, "timestamp", JStr(strftime(t))),
                       "transaction_amount", JInt(amount)))
SpendString(t, amount) ==
    json_dumps(DictSet(DictSet(EmptyDict, "timestamp", JStr(strftime(t))),
                       "transaction_amount", JInt(-amount)))

\* the ledger script's answers: code 0 is a normal return, 1 a raised exception
Ret(op, id, val) == [op |-> op, id |-> id, code |-> 0, val |-> val, num |-> 0]
\* a number returned: kept in a member of its own
RetNum(op, id, n) == [op |-> op, id |-> id, code |-> 0, val |-> <<>>, num |-> n]
Raise(op, id) == [op |-> op, id |-> id, code |-> 1, val |-> <<>>, num |-> 0]

CanWriteLedger == Len(calls) < MaxLedgerWrites

earn(p, amount, t) ==
    IF WrongType(store, KeyOfEarn(p)) THEN
        \* r.lpush raised
        /\ resp' = Raise("earn", p)
        /\ UNCHANGED <<lastSet, reported, scan, players, store, r, calls, posted, procs>>
    ELSE
        /\ CanWriteLedger
        /\ store' = LPush(store, KeyOfEarn(p), EarnString(t, amount))
        /\ calls' = Append(calls, [op |-> "earn", player |-> p, amount |-> amount])
        /\ resp' = Ret("earn", p, <<>>)
        /\ UNCHANGED <<lastSet, reported, scan, players, r, posted, procs>>

spend(p, amount, t) ==
    IF WrongType(store, KeyOfSpend(p)) THEN
        \* r.lpush raised
        /\ resp' = Raise("spend", p)
        /\ UNCHANGED <<lastSet, reported, scan, players, store, r, calls, posted, procs>>
    ELSE
        /\ CanWriteLedger
        /\ store' = LPush(store, KeyOfSpend(p), SpendString(t, amount))
        /\ calls' = Append(calls, [op |-> "spend", player |-> p, amount |-> amount])
        /\ resp' = Ret("spend", p, <<>>)
        /\ UNCHANGED <<lastSet, reported, scan, players, r, posted, procs>>

\* every entry decodes
AllDecode(l) == \A i \in 1..Len(l) : json_loads(l[i]).ok
DecodeAll(l) == [i \in 1..Len(l) |-> json_loads(l[i]).obj]

\* a faulty variant: the range (0, -5) of an earlier version, which skips the last four
HistoryOf_dropsTail(s, p) == DecodeAll(LRange(s, KeyOfHistory(p), 0, -5))
\* history's return value when no entry raises
HistoryOf(s, p) == DecodeAll(LRange(s, KeyOfHistory(p), 0, -1))

history(p) ==
    /\ resp' = IF /\ ~WrongType(store, KeyOfHistory(p))
                  /\ AllDecode(LRange(store, KeyOfHistory(p), 0, -1))
               THEN Ret("history", p, HistoryOf(store, p))
               ELSE Raise("history", p)
    /\ UNCHANGED <<lastSet, reported, scan, players, store, r, calls, posted, procs>>

\* json.loads(i)['transaction_amount'] is a number for every entry
AllAmounts(l) ==
    \A i \in 1..Len(l) :
        /\ json_loads(l[i]).ok
        /\ "transaction_amount" \in DOMAIN json_loads(l[i]).obj
        /\ json_loads(l[i]).obj["transaction_amount"].t \in {"int", "bool"}
Deltas(l) == [i \in 1..Len(l) |-> json_loads(l[i]).obj["transaction_amount"].n]

\* a faulty variant: a balance that would be negative is reported as 0
BalanceOf_floorAtZero(s, p) ==
    IF SumSeq(Deltas(LRange(s, KeyOfBalance(p), 0, -1))) < 0 THEN 0
    ELSE SumSeq(Deltas(LRange(s, KeyOfBalance(p), 0, -1)))
\* get_balance's return value when no entry raises
BalanceOf(s, p) == SumSeq(Deltas(LRange(s, KeyOfBalance(p), 0, -1)))

get_balance(p) ==
    /\ resp' = IF /\ ~WrongType(store, KeyOfBalance(p))
                  /\ AllAmounts(LRange(store, KeyOfBalance(p), 0, -1))
               THEN RetNum("get_balance", p, BalanceOf(store, p))
               ELSE Raise("get_balance", p)
    /\ UNCHANGED <<lastSet, reported, scan, players, store, r, calls, posted, procs>>

\* __main__: the connection is made and the database flushed before main()
InitLedger ==
    /\ store = FlushAll
    /\ r = "client"
    /\ resp = Ret("start", <<>>, <<>>)
    /\ calls = <<>>
    /\ posted = <<>>
    /\ procs = NoWriterStarted
    /\ players = NoPlayers
    /\ scan = NoScan
    /\ reported = NoScores
    /\ lastSet = NothingWritten

NextLedger ==
    \/ \E p \in LedgerPlayers, a \in Amounts, t \in Clock : earn(p, a, t)
    \/ \E p \in LedgerPlayers, a \in Amounts, t \in Clock : spend(p, a, t)
    \/ \E p \in LedgerPlayers : history(p)
    \/ \E p \in LedgerPlayers : get_balance(p)

SpecLedger == InitLedger /\ [][NextLedger]_vars

(***************************************************************************)
(* redis_server.py: snapshot writes and the best-score report.             *)
(***************************************************************************)
PlayerDataPrefix == <<"PlayerData", ":">>

\* the player_id members a POST body may carry; the last two are falsy
PlayerIdInputs ==
    { JStr(<<"1">>), JStr(<<"2">>), JStr(<<"1", ":", "2">>), JStr(<<>>), JInt(0) }
\* the 'coins' members a POST body may carry
CoinsInputs == { JInt(-5), JInt(10), JInt(55), JStr(<<"many">>) }
CallerTimestamp == JStr(<<"caller">>)

WithMember(ds, name, vs) == ds \cup { DictSet(d, name, v) : d \in ds, v \in vs }
\* the JSON objects a client may send: player_id and coins each present or
\* absent, and two bodies that carry a timestamp of the caller's
PostBodies ==
    WithMember(WithMember({EmptyDict}, "player_id", PlayerIdInputs), "coins", CoinsInputs)
    \cup { DictSet(d, "timestamp", CallerTimestamp) :
             d \in WithMember({DictSet(EmptyDict, "player_id", JStr(<<"1">>))},
                              "coins", {JInt(10)}) }
\* the bodies sent while Redis cannot be reached
UnreachableBodies ==
    { DictSet(DictSet(EmptyDict, "player_id", JStr(<<"1">>)), "coins", JInt(10)),
      DictSet(EmptyDict, "coins", JInt(10)) }
\* the content of a request that is not JSON
OtherBodies == {"form", "raw", "none"}

\* Python's truth value of a JSON value
Truthy(v) ==
    CASE v.t = "null" -> FALSE
      [] v.t = "bool" -> v.n = 1
      [] v.t = "int" -> v.n # 0
      [] v.t = "str" -> v.s # <<>>
      [] OTHER -> TRUE

Digits == <<"0", "1", "2", "3", "4", "5", "6", "7", "8", "9">>
RECURSIVE NatToStr(_)
NatToStr(n) == IF n < 10 THEN <<Digits[n + 1]>> ELSE NatToStr(n \div 10) \o <<Digits[(n % 10) + 1]>>
\* str(v), as an f-string formats a value
FormatStr(v) ==
    CASE v.t = "str" -> v.s
      [] v.t = "int" -> IF v.n < 0 THEN <<"-">> \o NatToStr(0 - v.n) ELSE NatToStr(v.n)
      [] v.t = "bool" -> IF v.n = 1 THEN <<"True">> ELSE <<"False">>
      [] OTHER -> <<"None">>

\* datetime.now().isoformat()
isoformat(t) == <<"iso", t>>

\* redis_key = f"PlayerData:{player_id}"
RedisKey(player_id) == PlayerDataPrefix \o FormatStr(player_id)

\* the JSON answers of the Flask handlers: a status code and an object
Answer(op, id, code, body) == [op |-> op, id |-> id, code |-> code, val |-> body, num |-> 0]
Member(name, v) == [k \in {<<name>>} |-> v]
StatusBody(status, message) ==
    [k \in {<<"status">>, <<"message">>} |->
        IF k = <<"status">> THEN JStr(<<status>>) ELSE JStr(<<message>>)]
JEmptyObject == [t |-> "obj", n |-> 0, s |-> <<>>]

\* the 200 answer of a stored snapshot: status, the record as stored, its key
StoredBody(data, redis_key) ==
    [k \in {<<"status">>, <<"received_data">>, <<"redis_key">>} |->
        IF k = <<"status">> THEN JStr(<<"success">>)
        ELSE IF k = <<"received_data">> THEN data
        ELSE JStr(redis_key)]

\* a stamping that keeps a timestamp the caller sent
Stamped_keepsCallers(data, t) ==
    IF "timestamp" \in DOMAIN data THEN data
    ELSE DictSet(data, "timestamp", JStr(isoformat(t)))
\* data['timestamp'] = datetime.now().isoformat()
Stamped(data, t) == DictSet(data, "timestamp", JStr(isoformat(t)))

CanPost == Len(posted) < MaxSnapshots

\* POST /
receive_data(isJson, data, other, t, up) ==
    IF r = "None" THEN
        \* not r
        /\ resp' = Answer("post", <<>>, 500, StatusBody("error", "no connection"))
        /\ UNCHANGED <<lastSet, reported, scan, players, store, r, calls, posted, procs>>
    ELSE IF ~isJson THEN
        /\ resp' = IF other = "none"
                   THEN Answer("post", <<>>, 400, StatusBody("error", "unsupported"))
                   ELSE Answer("post", <<>>, 200, StatusBody("success", other))
        /\ UNCHANGED <<lastSet, reported, scan, players, store, r, calls, posted, procs>>
    ELSE IF ~Truthy(DictGet(data, "player_id")) THEN
        /\ resp' = Answer("post", <<>>, 400, StatusBody("error", "missing player_id"))
        /\ UNCHANGED <<lastSet, reported, scan, players, store, r, calls, posted, procs>>
    ELSE
        LET stamped == Stamped(data, t)
            redis_key == RedisKey(DictGet(data, "player_id"))
        IN  IF ~up \/ WrongType(store, redis_key) THEN
                \* r.rpush raised a RedisError
                /\ resp' = Answer("post", <<>>, 500, StatusBody("error", "redis error"))
                /\ UNCHANGED <<lastSet, reported, scan, players, store, r, calls, posted, procs>>
            ELSE
                /\ CanPost
                /\ store' = RPush(store, redis_key, json_dumps(stamped))
                /\ posted' = Append(posted, data)
                /\ resp' = Answer("post", redis_key, 200, StoredBody(stamped, redis_key))
                /\ UNCHANGED <<lastSet, reported, scan, players, r, calls, procs>>

\* player_key_str.split(':')
RECURSIVE Split(_)
Split(s) ==
    IF \A i \in 1..Len(s) : s[i] # ":" THEN <<s>>
    ELSE LET i == CHOOSE j \in 1..Len(s) : s[j] = ":" /\ \A k \in 1..(j - 1) : s[k] # ":"
         IN  <<SubSeq(s, 1, i - 1)>> \o Split(SubSeq(s, i + 1, Len(s)))
\* player_id = player_key_str.split(':')[-1]
PlayerIdOfKey(key) == Split(key)[Len(Split(key))]

\* isinstance(v, (int, float)): Python's bool is a subclass of int
IsIntOrFloat(v) == v.t \in {"int", "bool"}

\* max_coins_for_player = -1
InitialMax == JInt(-1)

\* the loop over one player's snapshots; an entry that does not decode is skipped
RECURSIVE MaxCoins(_, _)
MaxCoins(snapshots, max) ==
    IF snapshots = <<>> THEN max
    ELSE LET decoded == json_loads(Head(snapshots))
             current_coins == DictGet(decoded.obj, "coins")
         IN  MaxCoins(Tail(snapshots),
                      IF /\ decoded.ok
                         /\ current_coins.t # "null"
                         /\ IsIntOrFloat(current_coins)
                         /\ current_coins.n > max.n
                      THEN current_coins ELSE max)

\* the keys r.keys("PlayerData:*") answers
PlayerDataKeys(s) == { k \in DOMAIN s : StartsWith(k, PlayerDataPrefix) }
\* r.keys answers them in no particular order
Orders(S) == { o \in [1..Cardinality(S) -> S] : \A i, j \in 1..Cardinality(S) : o[i] = o[j] => i = j }

\* one turn of the loop over the keys: the key's list is read and its best
\* score, if any, entered under the id taken from the key
ScanKey(s, key, best) ==
    LET player_id == PlayerIdOfKey(key)
        snapshots == LRange(s, key, 0, -1)
        max == MaxCoins(snapshots, InitialMax)
    IN  IF player_id = <<>> \/ snapshots = <<>> \/ ~(max.n > InitialMax.n)
        THEN best
        ELSE DictSet(best, player_id, max)

\* the loop over the keys, in the order r.keys gave them
RECURSIVE Scan(_, _, _)
Scan(s, order, best) ==
    IF order = <<>> THEN best
    ELSE Scan(s, Tail(order), ScanKey(s, Head(order), best))

\* r.lrange raises on a key that holds a string (a key with an empty id is skipped before)
ScanRaises(s) ==
    \E k \in PlayerDataKeys(s) : PlayerIdOfKey(k) # <<>> /\ WrongType(s, k)

NoKeysBody ==
    [k \in {<<"status">>, <<"message">>, <<"best_scores">>} |->
        IF k = <<"status">> THEN JStr(<<"info">>)
        ELSE IF k = <<"message">> THEN JStr(<<"no player data keys">>)
        ELSE JEmptyObject]

\* the player ids a 200 answer lists, each with the number it gives
ScoresOf(body) == IF body = NoKeysBody THEN NoScores ELSE [id \in DOMAIN body |-> body[id].n]

\* the answers GET / can give on store s when Redis is reachable
ReportAnswers(s) ==
    IF ScanRaises(s) THEN { Answer("report", <<>>, 500, StatusBody("error", "redis error")) }
    ELSE IF PlayerDataKeys(s) = {} THEN { Answer("report", <<>>, 200, NoKeysBody) }
    ELSE { Answer("report", <<>>, 200, Scan(s, o, EmptyDict)) : o \in Orders(PlayerDataKeys(s)) }

\* GET /
get_best_scores_for_each_player(up) ==
    /\ resp' \in IF r = "None"
                 THEN { Answer("report", <<>>, 500, StatusBody("error", "no connection")) }
                 ELSE IF ~up
                 THEN { Answer("report", <<>>, 500, StatusBody("error", "redis error")) }
                 ELSE ReportAnswers(store)
    /\ reported' = IF resp'.code = 200 THEN ScoresOf(resp'.val) ELSE reported
    /\ UNCHANGED <<lastSet, scan, players, store, r, calls, posted, procs>>

\* The server opens a database it does not own and never clears: what it finds
\* there at startup is not its own doing.  An entry that is no JSON text is what
\* the report's JSONDecodeError handler is written for.
StartupStores ==
    { FlushAll,
      [k \in {PlayerDataPrefix \o <<"1">>} |-> ListVal(<<Garbage>>)] }

InitReport ==
    /\ store \in StartupStores
    /\ r \in {"client", "None"}
    /\ resp = Ret("start", <<>>, <<>>)
    /\ calls = <<>>
    /\ posted = <<>>
    /\ procs = NoWriterStarted
    /\ players = NoPlayers
    /\ scan = NoScan
    /\ reported = NoScores
    /\ lastSet = NothingWritten

NextReport ==
    \/ \E data \in PostBodies, t \in Clock : receive_data(TRUE, data, "none", t, TRUE)
    \/ \E data \in UnreachableBodies, t \in Clock : receive_data(TRUE, data, "none", t, FALSE)
    \/ \E other \in OtherBodies, t \in Clock : receive_data(FALSE, EmptyDict, other, t, TRUE)
    \/ \E up \in BOOLEAN : get_best_scores_for_each_player(up)

SpecReport == InitReport /\ [][NextReport]_vars

(***************************************************************************)
(* app.py: the generic key/value service, on the same database.            *)
(***************************************************************************)
\* the keys a client of the service may name
KvKeys == { <<"k">>, PlayerDataPrefix \o <<"1">> }
\* the 'key' and 'value' members of a JSON body; <<>> and 0 are falsy
KvKeyInputs == { JStr(k) : k \in KvKeys } \cup { JStr(<<>>) }
KvValueInputs == { JStr(<<"v">>), JInt(7), JInt(0) }

\* SET key value: whatever the key held is replaced by the string
Set(s, key, value) == Put(s, key, StringVal(value))
\* DEL key
Del(s, key) == [k \in DOMAIN s \ {key} |-> s[k]]
\* GET key on a key that holds a list answers WRONGTYPE
GetRaises(s, key) == TypeOf(s, key) = "list"

\* POST /data
manage_data_post(key, value) ==
    IF Truthy(key) /\ Truthy(value) THEN
        /\ store' = Set(store, FormatStr(key), FormatStr(value))
        /\ resp' = Answer("kv_post", FormatStr(key), 201, StatusBody("ok", "Data stored successfully"))
        /\ lastSet' = Put(lastSet, FormatStr(key), value)
        /\ UNCHANGED <<reported, scan, players, r, calls, posted, procs>>
    ELSE
        /\ resp' = Answer("kv_post", <<>>, 400, StatusBody("error", "Key and value are required"))
        /\ UNCHANGED <<lastSet, reported, scan, players, store, r, calls, posted, procs>>

KeyValueBody(key, value) ==
    [k \in {<<"key">>, <<"value">>} |-> IF k = <<"key">> THEN JStr(key) ELSE JStr(value)]

\* GET /data?key=...
manage_data_get(key) ==
    /\ key # <<>>
    /\ resp' = IF GetRaises(store, key)
               THEN Answer("kv_get", key, 500, StatusBody("error", "unhandled ResponseError"))
               ELSE IF Exists(store, key) /\ store[key].val # <<>>
               THEN Answer("kv_get", key, 200, KeyValueBody(key, store[key].val))
               ELSE Answer("kv_get", key, 404, StatusBody("error", "Data not found"))
    /\ UNCHANGED <<lastSet, reported, scan, players, store, r, calls, posted, procs>>

\* GET /data without a key: every key of the database with its value
manage_data_get_all ==
    /\ resp' = IF \E k \in DOMAIN store : GetRaises(store, k)
               THEN Answer("kv_get_all", <<>>, 500, StatusBody("error", "unhandled ResponseError"))
               ELSE Answer("kv_get_all", <<>>, 200, [k \in DOMAIN store |-> JStr(store[k].val)])
    /\ UNCHANGED <<lastSet, reported, scan, players, store, r, calls, posted, procs>>

\* DELETE /data/<key>
delete_data(key) ==
    IF Exists(store, key) THEN
        /\ store' = Del(store, key)
        /\ resp' = Answer("kv_delete", key, 200, StatusBody("ok", "Data deleted successfully"))
        /\ lastSet' = Del(lastSet, key)
        /\ UNCHANGED <<reported, scan, players, r, calls, posted, procs>>
    ELSE
        /\ resp' = Answer("kv_delete", key, 404, StatusBody("error", "Data not found"))
        /\ UNCHANGED <<lastSet, reported, scan, players, store, r, calls, posted, procs>>

\* PUT /data/<key>
update_data(key, value) ==
    IF Truthy(value) THEN
        /\ store' = Set(store, key, FormatStr(value))
        /\ resp' = Answer("kv_put", key, 200, StatusBody("ok", "Data updated successfully"))
        /\ lastSet' = Put(lastSet, key, value)
        /\ UNCHANGED <<reported, scan, players, r, calls, posted, procs>>
    ELSE
        /\ resp' = Answer("kv_put", key, 400, StatusBody("error", "Value is required"))
        /\ UNCHANGED <<lastSet, reported, scan, players, store, r, calls, posted, procs>>

\* a run of lab7_exercise.py begins by flushing the whole database
flushall ==
    /\ store' = FlushAll
    /\ resp' = Ret("flushall", <<>>, <<>>)
    /\ lastSet' = NothingWritten
    /\ UNCHANGED <<reported, scan, players, r, calls, posted, procs>>

(***************************************************************************)
(* cassandra_server.py: create_player on the table 'players'.  The table   *)
(* lives in a Cassandra keyspace that outlasts the server, so a run may    *)
(* start with rows in it.                                                  *)
(***************************************************************************)
PlayerIds == {"p1", "p2", "p3", "p4"}
Row(username) == <<username>>
StartupTables == UNION { [S -> {Row("old")}] : S \in SUBSET PlayerIds }

\* required_fields
RequiredFields ==
    {"id", "username", "email", "age", "Gold_trophies", "Silver_trophies", "Bronze_trophies"}
\* a complete body: every trophies member is an object
CompleteBody(id) ==
    [f \in RequiredFields |->
        IF f = "id" THEN JStr(<<id>>)
        ELSE IF f \in {"Gold_trophies", "Silver_trophies", "Bronze_trophies"} THEN JEmptyObject
        ELSE JStr(<<"new">>)]
\* the bodies a client may send: complete, one field short, or with a trophies
\* member that is a number
CreateBodies ==
    { CompleteBody(id) : id \in PlayerIds }
    \cup { [f \in RequiredFields \ {"email"} |-> CompleteBody("p1")[f]] }
    \cup { [CompleteBody("p1") EXCEPT ![f] = JInt(3)] :
              f \in {"Gold_trophies", "Silver_trophies", "Bronze_trophies"} }
    \cup { EmptyDict }

\* the statement of create_player: its column list as written ("age, )" leaves
\* an empty name after the last comma), its %s placeholders, and the
\* parameters passed to session.execute
InsertColumns == <<"id", "username", "email", "age", "">>
InsertPlaceholders == 5
InsertParameters == 7
\* the driver binds the parameters of a SimpleStatement with Python's %
\* operator, which raises TypeError unless there is one value per placeholder
BindRaises(placeholders, parameters) == placeholders # parameters
\* the server answers a SyntaxException to a column list with an empty name
SyntaxError(columns) == \E i \in 1..Len(columns) : columns[i] = ""

ErrorBody(message) == Member("error", JStr(<<message>>))

\* POST / of cassandra_server.py
create_player(data) ==
    IF data = EmptyDict THEN
        /\ resp' = Answer("create", <<>>, 400, ErrorBody("Request must be JSON"))
        /\ UNCHANGED <<lastSet, reported, scan, store, r, calls, posted, procs, players>>
    ELSE IF ~(RequiredFields \subseteq DOMAIN data) THEN
        /\ resp' = Answer("create", <<>>, 400, ErrorBody("Missing required fields"))
        /\ UNCHANGED <<lastSet, reported, scan, store, r, calls, posted, procs, players>>
    ELSE IF \E f \in {"Gold_trophies", "Silver_trophies", "Bronze_trophies"} : data[f].t # "obj" THEN
        /\ resp' = Answer("create", <<>>, 400, ErrorBody("Trophies must be an object"))
        /\ UNCHANGED <<lastSet, reported, scan, store, r, calls, posted, procs, players>>
    ELSE IF BindRaises(InsertPlaceholders, InsertParameters) \/ SyntaxError(InsertColumns) THEN
        \* except Exception
        /\ resp' = Answer("create", data["id"].s, 500, ErrorBody("Internal server error"))
        /\ UNCHANGED <<lastSet, reported, scan, store, r, calls, posted, procs, players>>
    ELSE IF data["id"].s[1] \in DOMAIN players THEN
        \* IF NOT EXISTS: not result.was_applied
        /\ resp' = Answer("create", data["id"].s, 409, ErrorBody("already exists"))
        /\ UNCHANGED <<lastSet, reported, scan, store, r, calls, posted, procs, players>>
    ELSE
        /\ players' = [id \in DOMAIN players \cup {data["id"].s[1]} |->
                          IF id = data["id"].s[1] THEN Row("new") ELSE players[id]]
        /\ resp' = Answer("create", data["id"].s, 201, ErrorBody("Player created successfully"))
        /\ UNCHANGED <<lastSet, reported, scan, store, r, calls, posted, procs>>

InitPlayers ==
    /\ store = FlushAll
    /\ r = "client"
    /\ resp = Ret("start", <<>>, <<>>)
    /\ calls = <<>>
    /\ posted = <<>>
    /\ procs = NoWriterStarted
    /\ players \in StartupTables
    /\ scan = NoScan
    /\ reported = NoScores
    /\ lastSet = NothingWritten

NextPlayers == \E data \in CreateBodies : create_player(data)

SpecPlayers == InitPlayers /\ [][NextPlayers]_vars

(***************************************************************************)
(* The two Flask services on their shared database, which a run of the     *)
(* ledger script flushes.                                                  *)
(***************************************************************************)
\* the snapshot bodies sent in the shared runs
SharedBodies ==
    { DictSet(DictSet(EmptyDict, "player_id", JStr(id)), "coins", JInt(c)) :
        id \in {<<"1">>, <<"2">>}, c \in {10, 55} }

Init ==
    /\ store = FlushAll
    /\ r \in {"client", "None"}
    /\ resp = Ret("start", <<>>, <<>>)
    /\ calls = <<>>
    /\ posted = <<>>
    /\ procs = NoWriterStarted
    /\ players = NoPlayers
    /\ scan = NoScan
    /\ reported = NoScores
    /\ lastSet = NothingWritten

Next ==
    \/ \E data \in SharedBodies, t \in Clock : receive_data(TRUE, data, "none", t, TRUE)
    \/ \E up \in BOOLEAN : get_best_scores_for_each_player(up)
    \/ \E key \in KvKeyInputs, value \in KvValueInputs : manage_data_post(key, value)
    \/ \E key \in KvKeys : manage_data_get(key)
    \/ manage_data_get_all
    \/ \E key \in KvKeys : delete_data(key)
    \/ \E key \in KvKeys, value \in KvValueInputs : update_data(key, value)
    \/ flushall

Spec == Init /\ [][Next]_vars

(***************************************************************************)
(* Every operation of the three programs that reads or writes a list, on   *)
(* one ledger sequence and one snapshot sequence.                          *)
(***************************************************************************)
LogKeys == { KeyOfEarn(<<"1001">>), PlayerDataPrefix \o <<"1">> }
LogBodies ==
    { DictSet(DictSet(EmptyDict, "player_id", JStr(<<"1">>)), "coins", JInt(c)) : c \in {10, 55} }

InitLog ==
    /\ store = FlushAll
    /\ r \in {"client", "None"}
    /\ resp = Ret("start", <<>>, <<>>)
    /\ calls = <<>>
    /\ posted = <<>>
    /\ procs = NoWriterStarted
    /\ players = NoPlayers
    /\ scan = NoScan
    /\ reported = NoScores
    /\ lastSet = NothingWritten

NextLog ==
    \/ \E t \in Clock : earn(<<"1001">>, 50, t)
    \/ \E t \in Clock : spend(<<"1001">>, 50, t)
    \/ history(<<"1001">>)
    \/ get_balance(<<"1001">>)
    \/ \E data \in LogBodies, t \in Clock : receive_data(TRUE, data, "none", t, TRUE)
    \/ \E data \in UnreachableBodies, t \in Clock : receive_data(TRUE, data, "none", t, FALSE)
    \/ \E other \in OtherBodies, t \in Clock : receive_data(FALSE, EmptyDict, other, t, TRUE)
    \/ get_best_scores_for_each_player(TRUE)
    \/ \E key \in LogKeys : manage_data_post(JStr(key), JInt(7))
    \/ \E key \in LogKeys : manage_data_get(key)
    \/ \E key \in LogKeys : delete_data(key)
    \/ \E key \in LogKeys : update_data(key, JInt(7))
    \/ flushall

SpecLog == InitLog /\ [][NextLog]_vars

(***************************************************************************)
(* Concurrent writers.  A write is two steps: the caller builds the entry  *)
(* (timestamp, json.dumps, key), then sends one push command; other        *)
(* callers' steps and reads may fall between the two.                      *)
(***************************************************************************)
ConcPlayer == <<"1001">>
ConcBody(coins) == DictSet(DictSet(EmptyDict, "player_id", JStr(<<"1">>)), "coins", JInt(coins))
ConcAmounts == {50, 100}
ConcCoins == {10, 55}

Built(op, arg, key, entry) == [pc |-> "built", op |-> op, arg |-> arg, key |-> key, entry |-> entry]

\* earn, up to the push
earn_begin(w, amount, t) ==
    /\ procs[w].pc = "idle"
    /\ procs' = [procs EXCEPT ![w] = Built("earn", amount, KeyOfEarn(ConcPlayer), EarnString(t, amount))]
    /\ UNCHANGED <<lastSet, reported, scan, players, store, r, resp, calls, posted>>

\* spend, up to the push
spend_begin(w, amount, t) ==
    /\ procs[w].pc = "idle"
    /\ procs' = [procs EXCEPT ![w] = Built("spend", amount, KeyOfSpend(ConcPlayer), SpendString(t, amount))]
    /\ UNCHANGED <<lastSet, reported, scan, players, store, r, resp, calls, posted>>

\* receive_data, up to the push
receive_data_begin(w, coins, t) ==
    /\ procs[w].pc = "idle"
    /\ r # "None"
    /\ Truthy(DictGet(ConcBody(coins), "player_id"))
    /\ procs' = [procs EXCEPT ![w] =
                    Built("post", coins, RedisKey(DictGet(ConcBody(coins), "player_id")),
                          json_dumps(Stamped(ConcBody(coins), t)))]
    /\ UNCHANGED <<lastSet, reported, scan, players, store, r, resp, calls, posted>>

\* r.lpush / r.rpush: one command, atomic in the server
push(w) ==
    /\ procs[w].pc = "built"
    /\ store' = IF procs[w].op = "post"
                THEN RPush(store, procs[w].key, procs[w].entry)
                ELSE LPush(store, procs[w].key, procs[w].entry)
    /\ procs' = [procs EXCEPT ![w].pc = "done"]
    /\ UNCHANGED <<lastSet, reported, scan, players, r, resp, calls, posted>>

InitConc ==
    /\ store = FlushAll
    /\ r = "client"
    /\ resp = Ret("start", <<>>, <<>>)
    /\ calls = <<>>
    /\ posted = <<>>
    /\ procs = NoWriterStarted
    /\ players = NoPlayers
    /\ scan = NoScan
    /\ reported = NoScores
    /\ lastSet = NothingWritten

NextConc ==
    \/ \E w \in Writers, a \in ConcAmounts, t \in Clock : earn_begin(w, a, t)
    \/ \E w \in Writers, a \in ConcAmounts, t \in Clock : spend_begin(w, a, t)
    \/ \E w \in Writers, c \in ConcCoins, t \in Clock : receive_data_begin(w, c, t)
    \/ \E w \in Writers : push(w)
    \/ history(ConcPlayer)
    \/ get_balance(ConcPlayer)
    \/ get_best_scores_for_each_player(TRUE)

SpecConc == InitConc /\ [][NextConc]_vars

(***************************************************************************)
(* A report whose commands interleave with snapshot writes.  The report is *)
(* one KEYS command, then one LRANGE command per key, then the answer;     *)
(* each command is atomic in the server and writes may fall between them.  *)
(***************************************************************************)
ScanBodies ==
    { DictSet(DictSet(EmptyDict, "player_id", JStr(id)), "coins", JInt(c)) :
        id \in {<<"1">>, <<"2">>, <<"1", ":", "2">>}, c \in {10, 55} }

\* r.keys("PlayerData:*")
report_keys ==
    /\ scan.pc = "idle"
    /\ IF r = "None" THEN
           \* not r
           /\ resp' = Answer("report", <<>>, 500, StatusBody("error", "no connection"))
           /\ UNCHANGED scan
       ELSE
           /\ \E order \in Orders(PlayerDataKeys(store)) :
                 scan' = [pc |-> "scanning", todo |-> order, found |-> order # <<>>,
                          best |-> EmptyDict, atStart |-> store]
           /\ UNCHANGED resp
    /\ UNCHANGED <<lastSet, reported, store, r, calls, posted, procs, players>>

\* one turn of the loop: r.lrange(key, 0, -1) and the fold over what it returned
report_lrange ==
    /\ scan.pc = "scanning"
    /\ scan.todo # <<>>
    /\ IF PlayerIdOfKey(Head(scan.todo)) # <<>> /\ WrongType(store, Head(scan.todo)) THEN
           \* except redis.exceptions.RedisError
           /\ resp' = Answer("report", <<>>, 500, StatusBody("error", "redis error"))
           /\ scan' = [scan EXCEPT !.pc = "idle"]
       ELSE
           /\ scan' = [scan EXCEPT !.todo = Tail(scan.todo),
                                    !.best = ScanKey(store, Head(scan.todo), scan.best)]
           /\ UNCHANGED resp
    /\ UNCHANGED <<lastSet, reported, store, r, calls, posted, procs, players>>

\* the answer, once every key has been read
report_return ==
    /\ scan.pc = "scanning"
    /\ scan.todo = <<>>
    /\ resp' = Answer("report", <<>>, 200, IF scan.found THEN scan.best ELSE NoKeysBody)
    /\ reported' = ScoresOf(resp'.val)
    /\ scan' = [scan EXCEPT !.pc = "idle"]
    /\ UNCHANGED <<lastSet, store, r, calls, posted, procs, players>>

InitScan ==
    /\ store = FlushAll
    /\ r = "client"
    /\ resp = Ret("start", <<>>, <<>>)
    /\ calls = <<>>
    /\ posted = <<>>
    /\ procs = NoWriterStarted
    /\ players = NoPlayers
    /\ scan = NoScan
    /\ reported = NoScores
    /\ lastSet = NothingWritten

NextScan ==
    \/ \E data \in ScanBodies, t \in Clock : receive_data(TRUE, data, "none", t, TRUE)
    \/ report_keys
    \/ report_lrange
    \/ report_return

SpecScan == InitScan /\ [][NextScan]_vars

(***************************************************************************)
(* Claims about the ledger, checked under SpecLedger.                      *)
(***************************************************************************)
\* the calls of one player, in call order
RECURSIVE CallsOf(_, _)
CallsOf(cs, p) ==
    IF cs = <<>> THEN <<>>
    ELSE (IF Head(cs).player = p THEN <<Head(cs)>> ELSE <<>>) \o CallsOf(Tail(cs), p)
\* the signed amount a call is meant to record
Signed(c) == IF c.op = "earn" THEN c.amount ELSE 0 - c.amount
RECURSIVE SumOp(_, _)
SumOp(cs, op) ==
    IF cs = <<>> THEN 0
    ELSE (IF Head(cs).op = op THEN Head(cs).amount ELSE 0) + SumOp(Tail(cs), op)
SignedOf(cs) == [i \in 1..Len(cs) |-> Signed(cs[i])]
AmountsOf(recs) == [i \in 1..Len(recs) |-> recs[i]["transaction_amount"].n]

\* C1: get_balance(p), called after any sequence of completed earn(p, a_i) and
\* spend(p, b_j) calls, returns exactly (sum of the a_i) - (sum of the b_j).
C1_BalanceIsEarnedMinusSpent ==
    resp.op = "get_balance" =>
        /\ resp.code = 0
        /\ resp.num = SumOp(CallsOf(calls, resp.id), "earn")
                      - SumOp(CallsOf(calls, resp.id), "spend")

\* the scenario of main(): earn 100, earn 200, spend 50 gives 250
C1_Witness ==
    /\ resp.op = "get_balance"
    /\ resp.id = <<"1001">>
    /\ calls = << [op |-> "earn", player |-> <<"1001">>, amount |-> 100],
                  [op |-> "earn", player |-> <<"1001">>, amount |-> 200],
                  [op |-> "spend", player |-> <<"1001">>, amount |-> 50] >>
    /\ resp.num = 250

\* C2: after N earn and M spend calls on p, history(p) returns exactly N+M
\* decoded records, and the multiset of their transaction_amount values is the
\* multiset of the +a_i and the -b_j written.
C2_HistoryIsTheWrites ==
    resp.op = "history" =>
        /\ resp.code = 0
        /\ Len(resp.val) = Len(CallsOf(calls, resp.id))
        /\ \A i \in 1..Len(resp.val) : "transaction_amount" \in DOMAIN resp.val[i]
        /\ SeqToBag(AmountsOf(resp.val)) = SeqToBag(SignedOf(CallsOf(calls, resp.id)))

C2_Witness ==
    /\ resp.op = "history"
    /\ Len(resp.val) = 3
    /\ \E i, j \in 1..3 : /\ CallsOf(calls, resp.id)[i].op = "earn"
                          /\ CallsOf(calls, resp.id)[j].op = "spend"
    /\ \E q \in LedgerPlayers : q # resp.id /\ CallsOf(calls, q) = <<>>

\* C6: writers and readers address the same key: in every reachable state, every
\* record earn or spend appended under an id is among the entries that history
\* and get_balance read for that id.
C6_WritesVisibleToReaders ==
    \A p \in LedgerPlayers :
        LET written == SeqToBag(SignedOf(CallsOf(calls, p)))
            forHistory == LRange(store, KeyOfHistory(p), 0, -1)
            forBalance == LRange(store, KeyOfBalance(p), 0, -1)
        IN  /\ AllAmounts(forHistory) /\ AllAmounts(forBalance)
            /\ SeqToBag(Deltas(forHistory)) = written
            /\ SeqToBag(Deltas(forBalance)) = written

C6_Witness ==
    /\ resp.op = "spend"
    /\ \A p \in LedgerPlayers : Len(CallsOf(calls, p)) >= 1
    /\ \E i \in 1..Len(calls) : calls[i].op = "earn"

(***************************************************************************)
(* Claims about the best-score report, checked under SpecReport.           *)
(***************************************************************************)
\* the numbers held by 'coins' in the entries of one list: the entry decodes and
\* its 'coins' is a number as Python counts one (an int, or a bool as 1 / 0)
CoinsValues(items) ==
    { json_loads(items[i]).obj["coins"].n :
        i \in { j \in 1..Len(items) :
                  /\ json_loads(items[j]).ok
                  /\ "coins" \in DOMAIN json_loads(items[j]).obj
                  /\ json_loads(items[j]).obj["coins"].t \in {"int", "bool"} } }
MaxOf(S) == CHOOSE m \in S : \A x \in S : x <= m
\* the entity a key addresses: the key with the namespace prefix stripped
EntityOfKey(key) == SubSeq(key, Len(PlayerDataPrefix) + 1, Len(key))
NoColon(text) == \A i \in 1..Len(text) : text[i] # ":"
ReportGiven == resp.op = "report" /\ resp.code = 200 /\ PlayerDataKeys(store) # {}

\* C3: for every entity that appears in the report, the reported value is the
\* maximum of 'coins' over the records of that entity's sequence in which
\* 'coins' is present and numeric.
C3_ReportedIsMaxOfOwnRecords ==
    ReportGiven =>
        \A id \in DOMAIN resp.val :
            LET own == CoinsValues(Items(store, PlayerDataPrefix \o id))
            IN  own # {} /\ resp.val[id].n = MaxOf(own)

\* C4: the report has an entry for every entity under the prefix whose sequence
\* holds at least one record with a numeric 'coins', whatever its value, and none
\* for an entity whose records all lack one.  (Stated for stores whose entity ids
\* hold no ':', where an entity's entry can only be under its own id.)
C4_ListedIffScored ==
    (ReportGiven /\ \A key \in PlayerDataKeys(store) : NoColon(EntityOfKey(key))) =>
        \A key \in PlayerDataKeys(store) :
            (CoinsValues(Items(store, key)) # {}) <=> (EntityOfKey(key) \in DOMAIN resp.val)

\* the entries of a list that do not decode
Malformed(items) == { i \in 1..Len(items) : ~json_loads(items[i]).ok }
RECURSIVE Decodable(_)
Decodable(items) ==
    IF items = <<>> THEN <<>>
    ELSE (IF json_loads(Head(items)).ok THEN <<Head(items)>> ELSE <<>>) \o Decodable(Tail(items))
OneMalformedRecord ==
    \E key \in PlayerDataKeys(store) :
        /\ Cardinality(Malformed(Items(store, key))) = 1
        /\ \A other \in PlayerDataKeys(store) \ {key} : Malformed(Items(store, other)) = {}

\* C5: when one record of a sequence is malformed, the aggregate is the one over
\* the sequence without that record, and the result reports a skip count of 1
\* (some member of the result that is no entity's entry carries the count).
C5_SkipCountReported ==
    (ReportGiven /\ OneMalformedRecord) =>
        /\ \A key \in PlayerDataKeys(store) :
              MaxCoins(Items(store, key), InitialMax)
                  = MaxCoins(Decodable(Items(store, key)), InitialMax)
        /\ \E k \in DOMAIN resp.val :
              /\ k \notin { PlayerIdOfKey(key) : key \in PlayerDataKeys(store) }
              /\ resp.val[k] = JInt(1)

\* the player_id of the i-th stored snapshot write
PostedId(i) == DictGet(posted[i], "player_id")

\* C7: no two player_ids the snapshot write accepted share a stored sequence or a
\* report entry, and the report lists each one's best score under exactly that
\* player_id.
C7_OneKeyAndOneEntryPerPlayer ==
    /\ \A i, j \in 1..Len(posted) :
          PostedId(i) # PostedId(j) =>
              /\ RedisKey(PostedId(i)) # RedisKey(PostedId(j))
              /\ PlayerIdOfKey(RedisKey(PostedId(i))) # PlayerIdOfKey(RedisKey(PostedId(j)))
    /\ ReportGiven =>
          \A i \in 1..Len(posted) :
              LET best == MaxCoins(Items(store, RedisKey(PostedId(i))), InitialMax)
              IN  best.n > InitialMax.n =>
                      /\ FormatStr(PostedId(i)) \in DOMAIN resp.val
                      /\ resp.val[FormatStr(PostedId(i))] = best

\* C10: a report when no key exists under the prefix returns an empty mapping and
\* not an error; when the store cannot be reached the report fails instead.
C10_NoKeysGivesEmptyMapping ==
    (resp.op = "report" /\ PlayerDataKeys(store) = {}) =>
        \/ resp.code = 200 /\ resp.val = EmptyDict
        \/ resp.code = 500 /\ resp.val[<<"status">>] = JStr(<<"error">>)

(***************************************************************************)
(* Claims about the sequences as the three programs share them, checked    *)
(* under SpecLog.                                                          *)
(***************************************************************************)
IsPrefix(a, b) == Len(a) <= Len(b) /\ SubSeq(b, 1, Len(a)) = a
IsSuffix(a, b) == Len(a) <= Len(b) /\ SubSeq(b, Len(b) - Len(a) + 1, Len(b)) = a
ListKeys(s) == { k \in DOMAIN s : s[k].type = "list" }
\* the sequence at key is still there after the step, with every record it had,
\* unchanged and in place, and at most new records at one end
Kept(key) ==
    /\ key \in ListKeys(store')
    /\ \/ IsPrefix(store[key].items, store'[key].items)
       \/ IsSuffix(store[key].items, store'[key].items)

\* C8, as stated: under any sequence of operations the programs offer, each
\* sequence only grows; a record once appended is never mutated, removed or
\* replaced.
C8_AppendOnlyUnderEveryOperation ==
    [][\A key \in ListKeys(store) : Kept(key)]_vars

\* C8, with whole-key operations excepted: a step leaves every sequence in place and at most longer,
\* except that the key/value service's DELETE, POST or PUT addressed to the
\* sequence's key, and the flush that begins a run of the ledger script, take a
\* sequence away as a whole.
C8_AppendOnlyButForWholeKeyRemoval ==
    [][\A key \in ListKeys(store) :
          \/ Kept(key)
          \/ resp'.op \in {"kv_delete", "kv_post", "kv_put"} /\ resp'.id = key
          \/ resp'.op = "flushall"]_vars

\* both kinds of sequence have grown by appends, and a reader has just read
C8_Witness ==
    /\ Len(Items(store, PlayerDataPrefix \o <<"1">>)) >= 2
    /\ Len(Items(store, KeyOfEarn(<<"1001">>))) >= 2
    /\ resp.op \in {"report", "history", "get_balance"}

(***************************************************************************)
(* Claims about concurrent writers, checked under SpecConc.                *)
(***************************************************************************)
ConcKeys == {KeyOfEarn(ConcPlayer), RedisKey(JStr(<<"1">>))}
DoneAt(key) == { w \in Writers : procs[w].pc = "done" /\ procs[w].key = key }
AllDone == \A w \in Writers : procs[w].pc = "done"
Occurrences(items, e) == Cardinality({ i \in 1..Len(items) : items[i] = e })
\* an entry is one whole record: it decodes, and to the members its writer gave it
WholeRecord(e) ==
    /\ json_loads(e).ok
    /\ \/ DOMAIN json_loads(e).obj = {"timestamp", "transaction_amount"}
       \/ DOMAIN json_loads(e).obj = {"player_id", "coins", "timestamp"}
\* what the writers were asked to write, whatever the order of their steps
RECURSIVE SumOver(_, _)
SumOver(S, f) ==
    IF S = {} THEN 0
    ELSE LET w == CHOOSE x \in S : TRUE IN f[w] + SumOver(S \ {w}, f)
AskedDelta == [w \in Writers |-> IF procs[w].op = "earn" THEN procs[w].arg
                                 ELSE IF procs[w].op = "spend" THEN 0 - procs[w].arg
                                 ELSE 0]
AskedCoins == { procs[w].arg : w \in { x \in Writers : procs[x].op = "post" } }

\* C9: whatever the interleaving of the writers' steps, each sequence holds
\* exactly one whole record per completed write, no more and no fewer; a reader
\* is given whole records only; and once every write has completed the balance
\* is the sum of the amounts asked for and the best score the largest coins
\* asked for, which do not depend on the interleaving.
C9_ConcurrentAppendsAllKept ==
    /\ \A key \in ConcKeys :
          /\ Len(Items(store, key)) = Cardinality(DoneAt(key))
          /\ \A w \in DoneAt(key) :
                Occurrences(Items(store, key), procs[w].entry)
                    = Cardinality({ x \in DoneAt(key) : procs[x].entry = procs[w].entry })
          /\ \A i \in 1..Len(Items(store, key)) : WholeRecord(Items(store, key)[i])
    /\ DOMAIN store \subseteq ConcKeys
    /\ resp.op = "history" =>
          /\ resp.code = 0
          /\ \A i \in 1..Len(resp.val) :
                DOMAIN resp.val[i] = {"timestamp", "transaction_amount"}
    /\ resp.op = "get_balance" => resp.code = 0
    /\ AllDone =>
          /\ BalanceOf(store, ConcPlayer) = SumOver(Writers, AskedDelta)
          /\ ReportAnswers(store) =
                IF AskedCoins = {}
                THEN { Answer("report", <<>>, 200, NoKeysBody) }
                ELSE { Answer("report", <<>>, 200,
                              DictSet(EmptyDict, <<"1">>, JInt(MaxOf(AskedCoins)))) }

\* two writers to one key whose pushes landed in the order opposite to their
\* numbering, and a balance read after both
C9_Witness ==
    /\ AllDone
    /\ procs[1].op = "earn" /\ procs[1].arg = 100
    /\ procs[2].op = "spend" /\ procs[2].arg = 50
    /\ Items(store, KeyOfEarn(ConcPlayer))[1] = procs[1].entry
    /\ resp.op = "get_balance" /\ resp.num = 50

(***************************************************************************)
(* Claims about the outcome of one write, checked under SpecLog.           *)
(***************************************************************************)
\* the step put exactly one entry, a whole record of the given members, at the
\* given end of the list at key, and left every other key as it was
AppendedOne(key, atHead, members) ==
    /\ key \in ListKeys(store')
    /\ Len(Items(store', key)) = Len(Items(store, key)) + 1
    /\ LET new == IF atHead THEN Head(Items(store', key))
                  ELSE Items(store', key)[Len(Items(store', key))]
       IN  /\ json_loads(new).ok
           /\ members \subseteq DOMAIN json_loads(new).obj
    /\ Items(store, key) = IF atHead THEN Tail(Items(store', key))
                           ELSE SubSeq(Items(store', key), 1, Len(Items(store, key)))
    /\ \A k \in (DOMAIN store \cup DOMAIN store') \ {key} :
          k \in DOMAIN store /\ k \in DOMAIN store' /\ store'[k] = store[k]
PostStep == resp'.op = "post"
LedgerWriteStep == resp'.op \in {"earn", "spend"}

StoredPost == resp.op = "post" /\ resp.code = 200 /\ resp.id # <<>>
\* a JSON value that is a number
IsNumber(v) == v.t \in {"int", "bool"}

\* C12: a snapshot write whose tracked field 'coins' is present and not a number
\* is rejected before any storage call: no such write is answered as stored,
\* and no record the service stored carries a non-numeric 'coins'.
C12_NonNumericPayloadRejected ==
    /\ StoredPost =>
          \/ "coins" \notin DOMAIN resp.val[<<"received_data">>]
          \/ IsNumber(resp.val[<<"received_data">>]["coins"])
    /\ \A key \in PlayerDataKeys(store) : \A i \in 1..Len(Items(store, key)) :
          LET rec == json_loads(Items(store, key)[i])
          IN  rec.ok /\ "coins" \in DOMAIN rec.obj => IsNumber(rec.obj["coins"])

(***************************************************************************)
(* Claims about reading, checked under SpecReport.                         *)
(***************************************************************************)
ReadStep == resp'.op \in {"report", "history", "get_balance"}
Returned(x) == IF x.op = "report" THEN x.code = 200 ELSE x.code = 0
\* the step is a read that directly follows a read of the same kind and
\* entity, both of which returned a result
RepeatedRead ==
    /\ ReadStep /\ resp.op = resp'.op /\ resp.id = resp'.id
    /\ Returned(resp) /\ Returned(resp')

\* C13: a read leaves the store as it was, and a read that directly follows a
\* read of the same entity, with no write in between, returns the same result.
C13_ReadsChangeNothingAndRepeat ==
    [][/\ ReadStep => store' = store
       /\ RepeatedRead => resp'.val = resp.val /\ resp'.num = resp.num]_vars

(***************************************************************************)
(* Claims about overdrawing, checked under SpecLedger.                     *)
(***************************************************************************)
SpendStep == resp'.op = "spend"
BalanceStep == resp'.op = "get_balance"
Earned(p) == SumOp(CallsOf(calls, p), "earn")
Spent(p) == SumOp(CallsOf(calls, p), "spend")

\* C14: spend(p, b) returns normally whatever the balance and puts one record
\* of delta -b at the head of p's sequence, the records before it untouched;
\* get_balance(p) returns earned minus spent, negative when more was spent.
C14_SpendNeverRefusedNorClamped ==
    [][/\ SpendStep =>
             /\ resp'.code = 0
             /\ calls' = Append(calls, calls'[Len(calls')])
             /\ calls'[Len(calls')].op = "spend" /\ calls'[Len(calls')].player = resp'.id
             /\ Items(store', KeyOfSpend(resp'.id)) # <<>>
             /\ Tail(Items(store', KeyOfSpend(resp'.id))) = Items(store, KeyOfSpend(resp'.id))
             /\ json_loads(Head(Items(store', KeyOfSpend(resp'.id)))).obj["transaction_amount"]
                  = JInt(0 - calls'[Len(calls')].amount)
       /\ BalanceStep =>
             /\ resp'.code = 0
             /\ resp'.num = Earned(resp'.id) - Spent(resp'.id)
             /\ Spent(resp'.id) > Earned(resp'.id) => resp'.num < 0]_vars

\* a player already overdrawn has spent again, and the balance read is negative
C14_Witness ==
    /\ resp.op = "get_balance" /\ resp.id = <<"1001">> /\ resp.num = -250
    /\ CallsOf(calls, <<"1001">>) =
          << [op |-> "earn", player |-> <<"1001">>, amount |-> 50],
             [op |-> "spend", player |-> <<"1001">>, amount |-> 100],
             [op |-> "spend", player |-> <<"1001">>, amount |-> 200] >>

(***************************************************************************)
(* Claims about entities without records, checked under SpecReport.        *)
(***************************************************************************)
\* C15: get_balance on an entity whose sequence does not exist returns the
\* number 0; the report has an entry only for an entity whose own sequence
\* exists and holds the reported value, so an entity without records is left
\* out and never listed with 0; with no sequence at all the report lists no
\* entity.
C15_EmptyBalanceIsZeroEmptyBestIsAbsent ==
    /\ resp.op = "get_balance" /\ ~Exists(store, KeyOfBalance(resp.id)) =>
          resp.code = 0 /\ resp.num = 0
    /\ ReportGiven =>
          \A id \in DOMAIN resp.val :
              /\ Items(store, PlayerDataPrefix \o id) # <<>>
              /\ resp.val[id].n \in CoinsValues(Items(store, PlayerDataPrefix \o id))
    /\ resp.op = "report" /\ resp.code = 200 /\ PlayerDataKeys(store) = {} =>
          resp.val = NoKeysBody

(***************************************************************************)
(* Claims about the player table, checked under SpecPlayers.               *)
(***************************************************************************)
\* the step answered a create request that passed the handler's validation
CreateStep == resp'.op = "create" /\ resp'.code # 400

\* C16: a create request whose id is already stored is answered 409 and leaves
\* the table as it was; a create request for an id not yet stored inserts
\* that row and no other.
C16_CreateNeverOverwrites ==
    [][CreateStep =>
          IF resp'.id[1] \in DOMAIN players
          THEN resp'.code = 409 /\ players' = players
          ELSE /\ DOMAIN players' = DOMAIN players \cup {resp'.id[1]}
               /\ \A id \in DOMAIN players : players'[id] = players[id]]_vars

(***************************************************************************)
(* Claims about the order of a sequence, checked under SpecLog.            *)
(***************************************************************************)
StoredPostStep == resp'.op = "post" /\ resp'.code = 200 /\ resp'.id # <<>>
LedgerWrittenStep == resp'.op \in {"earn", "spend"} /\ resp'.code = 0
HistoryStep == resp'.op = "history" /\ resp'.code = 0

\* C17, as stated: every write, of the ledger and of the snapshot service, puts
\* the new record at the head of the entity's sequence, and a full read gives
\* the sequence from its head, most recent first.
C17_EveryWriteAtHead ==
    [][/\ LedgerWrittenStep =>
             AppendedOne(KeyOfEarn(resp'.id), TRUE, {"timestamp", "transaction_amount"})
       /\ StoredPostStep => AppendedOne(resp'.id, TRUE, {"player_id", "timestamp"})
       /\ HistoryStep => resp'.val = DecodeAll(Items(store, KeyOfHistory(resp'.id)))]_vars

\* C17, by program: earn and spend put the new record at the head, and history
\* returns the sequence from its head, most recent first; a snapshot write
\* puts the new record at the tail, so a snapshot sequence is oldest first.
C17_LedgerAtHeadSnapshotsAtTail ==
    [][/\ LedgerWrittenStep =>
             AppendedOne(KeyOfEarn(resp'.id), TRUE, {"timestamp", "transaction_amount"})
       /\ StoredPostStep => AppendedOne(resp'.id, FALSE, {"player_id", "timestamp"})
       /\ HistoryStep => resp'.val = DecodeAll(Items(store, KeyOfHistory(resp'.id)))]_vars

\* history has returned a spend before the earn that preceded it, and the
\* snapshot sequence holds two different records
C17_Witness ==
    /\ resp.op = "history" /\ resp.code = 0
    /\ calls = << [op |-> "earn", player |-> <<"1001">>, amount |-> 50],
                  [op |-> "spend", player |-> <<"1001">>, amount |-> 50] >>
    /\ AmountsOf(resp.val) = <<-50, 50>>
    /\ Len(Items(store, PlayerDataPrefix \o <<"1">>)) = 2
    /\ Items(store, PlayerDataPrefix \o <<"1">>)[1] # Items(store, PlayerDataPrefix \o <<"1">>)[2]

(***************************************************************************)
(* Claims about a report among writers, checked under SpecScan.            *)
(***************************************************************************)
\* the step is the answer of a report that found keys
ReportReturns ==
    scan.pc = "scanning" /\ scan'.pc = "idle" /\ resp'.code = 200 /\ scan.found

\* C18: every value a report gives for an entity is the best score over the
\* entity's own sequence as it stood at some instant of the report: over a
\* prefix of the sequence as it is at the answer, no shorter than the sequence
\* was at the KEYS command.  (An entity first written during the scan is free
\* to appear or not: nothing is asked of the entities left out.)
C18_ReportedIsBestAtSomeInstant ==
    [][ReportReturns =>
          \A id \in DOMAIN resp'.val :
              LET key == PlayerDataPrefix \o id
                  final == Items(store, key)
              IN  \E n \in Len(Items(scan.atStart, key))..Len(final) :
                      /\ CoinsValues(SubSeq(final, 1, n)) # {}
                      /\ resp'.val[id].n = MaxOf(CoinsValues(SubSeq(final, 1, n)))]_vars

(***************************************************************************)
(* Claims about one snapshot write, checked under SpecReport.              *)
(***************************************************************************)
\* the body of the write the step stored, as the caller sent it
SentBody == posted'[Len(posted')]
\* the record the step stored
StoredRecord(key) == json_loads(Items(store', key)[Len(Items(store', key))]).obj

\* C19: a snapshot write answered 200 puts exactly one record at the tail of
\* the sequence at PlayerData:<player_id> and leaves every other key as it
\* was; the record holds each field the caller sent, except that 'timestamp'
\* is the server's clock reading at the write, whatever the caller sent
\* there.
C19_PostAppendsOneStampedRecord ==
    [][StoredPostStep =>
          LET key == <<"PlayerData", ":">> \o SentBody["player_id"].s
          IN  /\ posted' = Append(posted, SentBody)
              /\ resp'.id = key
              /\ AppendedOne(key, FALSE, DOMAIN SentBody \cup {"timestamp"})
              /\ DOMAIN StoredRecord(key) = DOMAIN SentBody \cup {"timestamp"}
              /\ \A f \in DOMAIN SentBody \ {"timestamp"} : StoredRecord(key)[f] = SentBody[f]
              /\ StoredRecord(key)["timestamp"] \in { JStr(isoformat(t)) : t \in Clock }]_vars

\* a write that carried a timestamp of the caller's has been stored after
\* another entity's, with the server's timestamp in its place
C19_Witness ==
    /\ resp.op = "post" /\ resp.code = 200
    /\ Len(posted) = 2
    /\ "timestamp" \in DOMAIN posted[2] /\ posted[2]["timestamp"] = CallerTimestamp
    /\ posted[1]["player_id"] = JStr(<<"2">>)
    /\ Len(Items(store, PlayerDataPrefix \o <<"1">>)) = 1
    /\ json_loads(Items(store, PlayerDataPrefix \o <<"1">>)[1]).obj["timestamp"] = JStr(isoformat("t1"))
    /\ Len(Items(store, PlayerDataPrefix \o <<"2">>)) = 1

(***************************************************************************)
(* Claims about successive reports, checked under SpecReport.              *)
(***************************************************************************)
\* the step is a report answered 200
ReportAnswered == resp'.op = "report" /\ resp'.code = 200

\* C20: whatever was done since the last report answered 200, a report
\* answered 200 lists every entity that one listed, each with a value no
\* smaller than it had there.
C20_BestScoresNeverDecrease ==
    [][ReportAnswered =>
          \A id \in DOMAIN reported :
              id \in DOMAIN reported' /\ reported'[id] >= reported[id]]_vars

(***************************************************************************)
(* Claims about the key/value service, checked under Spec.                 *)
(***************************************************************************)
KvGetStep == resp'.op = "kv_get"
\* a POST or PUT answered 400, or a DELETE answered 404
KvRefusedStep ==
    \/ resp'.op \in {"kv_post", "kv_put"} /\ resp'.code = 400
    \/ resp'.op = "kv_delete" /\ resp'.code = 404

\* C21: a GET of a key that a POST or PUT was accepted for, and that was not
\* removed since, is answered 200 with exactly the value of the last such POST
\* or PUT; a POST or PUT answered 400 and a DELETE answered 404 leave the
\* store as it was.
C21_GetReturnsLastWritten ==
    [][/\ KvGetStep /\ resp'.id \in DOMAIN lastSet =>
            /\ resp'.code = 200
            /\ resp'.val[<<"key">>] = JStr(resp'.id)
            /\ resp'.val[<<"value">>] = lastSet[resp'.id]
       /\ KvRefusedStep => store' = store]_vars

=============================================================================
